---- MODULE Spec2Model ----
(***************************************************************************)
(* Cohort aggregation of daily Facebook-ads records                        *)
(* (src/src/build_cohorts.py): prepare_ad_weeks, build_outputs and the     *)
(* entry point build_cohorts_function.                                     *)
(*                                                                         *)
(* A DataFrame is a sequence of records (row order is kept, because        *)
(* drop_duplicates and cummax are positional).  A calendar date is the     *)
(* number of days since 1970-01-01 (a Thursday).  Money amounts are whole  *)
(* numbers of currency units; a ratio is an exact fraction in lowest       *)
(* terms, so revenue / spend >= 1.4 is decided without rounding.           *)
(* A raw cell of a numeric column is <<tag, n>>:                           *)
(*   <<"num", n>>   a number n                                             *)
(*   <<"str", n>>   a string that reads as the number n                    *)
(*   <<"bad", 0>>   a string that is no number                             *)
(*   <<"null", 0>>  a missing value (None)                                 *)
(***************************************************************************)
EXTENDS Integers, Sequences, FiniteSets, TLC

VARIABLES df_src, pc, err, df, gb, launch_dims, cohort_ad_week, run, prev_out,
          rows, upc, attempt, offset, sent, skipped, posts

vars == <<df_src, pc, err, df, gb, launch_dims, cohort_ad_week, run, prev_out,
          rows, upc, attempt, offset, sent, skipped, posts>>

\* the state of upsert_rows (fb_client.py)
uvars == <<rows, upc, attempt, offset, sent, skipped, posts>>

(***************************************************************************)
(* Bounds of the model and the input domain                                *)
(***************************************************************************)
MaxLen == 3

MaxPermLen == 3

\* the longest list handed to upsert_rows
MaxRows == 3

\* the rows of one POST; 1000 in upsert_rows, scaled down
CHUNK == 2

Ads == {1, 2}

\* 1970-01-04 (Sun), 01-05 (Mon), 01-11 (Sun), 01-19 (Mon), 02-01 (Sun)
Dates == {3, 4, 10, 18, 31}

\* <<spend, purchases, revenue, impressions>> as raw cells
HitCells == << <<"num", 5>>, <<"num", 10>>, <<"num", 7>>, <<"num", 100>> >>

FewPurchasesCells == << <<"num", 5>>, <<"num", 9>>, <<"str", 8>>, <<"bad", 0>> >>

LowRoasCells == << <<"num", 5>>, <<"str", 10>>, <<"num", 6>>, <<"num", 0>> >>

ZeroCells == << <<"num", 0>>, <<"null", 0>>, <<"bad", 0>>, <<"null", 0>> >>

BadSpendCells == << <<"bad", 0>>, <<"num", 10>>, <<"num", 7>>, <<"num", 100>> >>

Profiles == {HitCells, FewPurchasesCells, LowRoasCells, ZeroCells, BadSpendCells}

MkRecord(a, d, p, n) ==
  [ad_id |-> a, ad_name |-> n, adset_id |-> "s1", adset_name |-> "S",
   campaign_id |-> "c1", campaign_name |-> "Testing",
   date_start |-> d,
   spend |-> p[1], purchases |-> p[2], revenue |-> p[3], impressions |-> p[4]]

Records == {MkRecord(a, d, p, "A") : a \in Ads, d \in Dates, p \in Profiles}

\* the rows of a second, smaller domain in which an ad is renamed over time
PermDates == {3, 4, 10}

PermRecords ==
  {MkRecord(a, d, p, n) : a \in Ads, d \in PermDates,
                          p \in {HitCells, ZeroCells}, n \in {"A", "B"}}

\* The rows fetch_fb_daily returns: ordered by date_start ascending (rows of
\* one day in any order), and at most one row per (ad_id, date_start), the
\* unique key of the table fb_ad_daily (fb_client.py ON_CONFLICT).
DateAscending(s) == \A i \in 1..(Len(s) - 1) : s[i].date_start <= s[i + 1].date_start

UniqueKey(s) ==
  \A i, j \in 1..Len(s) :
     (s[i].ad_id = s[j].ad_id /\ s[i].date_start = s[j].date_start) => i = j

IsFetchResult(s) == DateAscending(s) /\ UniqueKey(s)

(***************************************************************************)
(* Helpers on sequences and sets                                           *)
(***************************************************************************)
RECURSIVE Sum(_)
Sum(s) == IF s = <<>> THEN 0 ELSE Head(s) + Sum(Tail(s))

RECURSIVE SetToSeq(_)
SetToSeq(S) ==
  IF S = {} THEN <<>>
  ELSE LET x == CHOOSE y \in S : TRUE IN <<x>> \o SetToSeq(S \ {x})

Range(s) == {s[i] : i \in 1..Len(s)}

Min(S) == CHOOSE x \in S : \A y \in S : x <= y

RECURSIVE GCD(_, _)
GCD(a, b) == IF b = 0 THEN a ELSE GCD(b, a % b)

(***************************************************************************)
(* Type conversion, build_cohorts.py 105-110                               *)
(***************************************************************************)
NaN == <<"nan", 0>>

\* pd.to_numeric(errors="coerce"): a number, or NaN
to_numeric(c) == IF c[1] \in {"num", "str"} THEN <<"val", c[2]>> ELSE NaN

\* a missing number filled with 1
FillnaOne(v, zero) == IF v = NaN THEN 1 ELSE v[2]

fillna(v, zero) == IF v = NaN THEN zero ELSE v[2]

Coerce(c) == fillna(to_numeric(c), 0)

TypeRow(r) ==
  [r EXCEPT !.impressions = Coerce(r.impressions),
            !.purchases = Coerce(r.purchases),
            !.spend = Coerce(r.spend),
            !.revenue = Coerce(r.revenue)]

TypeConversion(d) == [i \in 1..Len(d) |-> TypeRow(d[i])]

(***************************************************************************)
(* Launch day per ad, build_cohorts.py 113-119                             *)
(***************************************************************************)
\* a launch day taken over all the rows of the ad, paid or not
LaunchAnySpend(d) ==
  LET ads == {d[i].ad_id : i \in 1..Len(d)}
  IN [a \in ads |-> Min({d[i].date_start : i \in {j \in 1..Len(d) : d[j].ad_id = a}})]

\* ad_id -> first_spend_date, for the ads with a row of spend > 0
Launch(d) ==
  LET paid == {i \in 1..Len(d) : d[i].spend > 0}
      ads == {d[i].ad_id : i \in paid}
  IN [a \in ads |-> Min({d[i].date_start : i \in {j \in paid : d[j].ad_id = a}})]

\* df.merge(launch, on="ad_id", how="inner"): keeps the order of the left rows
MergeLaunch(d, launch) ==
  LET kept == SelectSeq(d, LAMBDA r : r.ad_id \in DOMAIN launch)
  IN [i \in 1..Len(kept) |->
        [ad_id |-> kept[i].ad_id, ad_name |-> kept[i].ad_name,
         adset_id |-> kept[i].adset_id, adset_name |-> kept[i].adset_name,
         campaign_id |-> kept[i].campaign_id, campaign_name |-> kept[i].campaign_name,
         date_start |-> kept[i].date_start,
         spend |-> kept[i].spend, purchases |-> kept[i].purchases,
         revenue |-> kept[i].revenue, impressions |-> kept[i].impressions,
         first_spend_date |-> launch[kept[i].ad_id]]]

(***************************************************************************)
(* Window and offsets, build_cohorts.py 121-130                            *)
(***************************************************************************)
WINDOW_DAYS == 28

Delta(r) == r.date_start - r.first_spend_date

\* a window that opens the day after the launch
InWindowAfterLaunch(r) == Delta(r) > 0 /\ Delta(r) < WINDOW_DAYS

InWindow(r) == Delta(r) >= 0 /\ Delta(r) < WINDOW_DAYS

\* weeks counted from 0
WeekOffsetZeroBased(r) == Delta(r) \div 7

WeekOffset(r) == 1 + (Delta(r) \div 7)

Between(x, lo, hi) == lo <= x /\ x <= hi

\* weekdays counted from Sunday = 0
DayOfWeekFromSunday(d) == (d + 4) % 7

\* Timestamp.dayofweek, Monday = 0; day 0 is Thursday 1970-01-01
DayOfWeek(d) == (d + 3) % 7

CohortWeek(r) == r.first_spend_date - DayOfWeek(r.first_spend_date)

Windowed(d) ==
  LET in28 == SelectSeq(d, InWindow)
      in14 == SelectSeq(in28, LAMBDA r : Between(WeekOffset(r), 1, 4))
  IN [i \in 1..Len(in14) |->
        [ad_id |-> in14[i].ad_id, ad_name |-> in14[i].ad_name,
         adset_id |-> in14[i].adset_id, adset_name |-> in14[i].adset_name,
         campaign_id |-> in14[i].campaign_id, campaign_name |-> in14[i].campaign_name,
         date_start |-> in14[i].date_start,
         spend |-> in14[i].spend, purchases |-> in14[i].purchases,
         revenue |-> in14[i].revenue, impressions |-> in14[i].impressions,
         first_spend_date |-> in14[i].first_spend_date,
         week_offset |-> WeekOffset(in14[i]),
         cohort_week |-> CohortWeek(in14[i])]]

(***************************************************************************)
(* Aggregate to ad x week bucket, build_cohorts.py 133-139                 *)
(***************************************************************************)
Key(r) == <<r.cohort_week, r.week_offset, r.ad_id>>

\* groupby(["cohort_week","week_offset","ad_id"]) sorts the group keys
GroupLess(k, l) ==
  \/ k[1] < l[1]
  \/ k[1] = l[1] /\ k[2] < l[2]
  \/ k[1] = l[1] /\ k[2] = l[2] /\ k[3] < l[3]

\* one group per row, the rows of a key not put together
GroupKeysPerRow(d) == SortSeq([i \in 1..Len(d) |-> Key(d[i])], GroupLess)

GroupKeys(d) == SortSeq(SetToSeq({Key(d[i]) : i \in 1..Len(d)}), GroupLess)

Column(d, k, f) ==
  LET sel == SelectSeq(d, LAMBDA r : Key(r) = k)
  IN [i \in 1..Len(sel) |-> sel[i][f]]

GroupBy(d) ==
  LET keys == GroupKeys(d)
  IN [i \in 1..Len(keys) |->
        [cohort_week |-> keys[i][1], week_offset |-> keys[i][2], ad_id |-> keys[i][3],
         spend |-> Sum(Column(d, keys[i], "spend")),
         purchases |-> Sum(Column(d, keys[i], "purchases")),
         revenue |-> Sum(Column(d, keys[i], "revenue"))]]

(***************************************************************************)
(* ROAS and hit flags, build_cohorts.py 91-92, 142-148                     *)
(***************************************************************************)
HIT_MIN_PURCHASES == 10

\* 1.4
HIT_MIN_ROAS == [num |-> 14, den |-> 10]

\* the fraction n / m in lowest terms, m > 0
Frac(n, m) == LET g == GCD(n, m) IN [num |-> n \div g, den |-> m \div g]

\* the ratio the other way round, as in supabaseaccess.py line 34
RoasInverted(spend, revenue) ==
  IF spend > 0 /\ revenue > 0 THEN Frac(spend, revenue) ELSE [num |-> 0, den |-> 1]

\* np.where(spend > 0, revenue / spend, 0.0)
Roas(spend, revenue) == IF spend > 0 THEN Frac(revenue, spend) ELSE [num |-> 0, den |-> 1]

FracGeq(x, y) == x.num * y.den >= y.num * x.den

\* strict comparison of the purchases
HitBucketStrict(purchases, roas) ==
  IF purchases > HIT_MIN_PURCHASES /\ FracGeq(roas, HIT_MIN_ROAS) THEN 1 ELSE 0

HitBucket(purchases, roas) ==
  IF purchases >= HIT_MIN_PURCHASES /\ FracGeq(roas, HIT_MIN_ROAS) THEN 1 ELSE 0

Scored(g) ==
  [i \in 1..Len(g) |->
     LET roas == Roas(g[i].spend, g[i].revenue)
     IN [cohort_week |-> g[i].cohort_week, week_offset |-> g[i].week_offset,
         ad_id |-> g[i].ad_id, spend |-> g[i].spend, purchases |-> g[i].purchases,
         revenue |-> g[i].revenue, roas |-> roas,
         hit_bucket |-> HitBucket(g[i].purchases, roas)]]

\* sort_values(["cohort_week","ad_id","week_offset"])
SortLess(r, s) ==
  \/ r.cohort_week < s.cohort_week
  \/ r.cohort_week = s.cohort_week /\ r.ad_id < s.ad_id
  \/ r.cohort_week = s.cohort_week /\ r.ad_id = s.ad_id /\ r.week_offset < s.week_offset

SortValues(g) == SortSeq(g, SortLess)

Max(S) == CHOOSE x \in S : \A y \in S : x >= y

\* groupby(["cohort_week","ad_id"])["hit_bucket"].cummax(): the running maximum
\* over the rows of the group met so far, in row order
SameGroup(r, s) == r.cohort_week = s.cohort_week /\ r.ad_id = s.ad_id

\* no carry from the earlier weeks
CumMaxNoCarry(g, i) == g[i].hit_bucket

CumMax(g, i) == Max({g[j].hit_bucket : j \in {k \in 1..i : SameGroup(g[k], g[i])}})

HitCum(g) ==
  [i \in 1..Len(g) |->
     [cohort_week |-> g[i].cohort_week, week_offset |-> g[i].week_offset,
      ad_id |-> g[i].ad_id, spend |-> g[i].spend, purchases |-> g[i].purchases,
      revenue |-> g[i].revenue, roas |-> g[i].roas,
      hit_bucket |-> g[i].hit_bucket, hit_cum |-> CumMax(g, i)]]

(***************************************************************************)
(* Names frozen at launch, build_cohorts.py 151-161                        *)
(***************************************************************************)
\* drop_duplicates("ad_id"): the first row of each ad_id is kept
DropDuplicates(d) ==
  LET first == {i \in 1..Len(d) : \A j \in 1..(i - 1) : d[j].ad_id # d[i].ad_id}
      idx == SortSeq(SetToSeq(first), LAMBDA i, j : i < j)
  IN [k \in 1..Len(idx) |-> d[idx[k]]]

\* a row of any day
AtAnyDay(r) == TRUE

\* the row of the cohort's Monday taken for the row of the launch day
AtCohortMonday(r) == r.date_start = r.cohort_week

\* df["date_start"] == df["first_spend_date"]
AtLaunch(r) == r.date_start = r.first_spend_date

\* the names of an ad's latest row
LaunchDimsLatest(d) ==
  LET rev == [i \in 1..Len(d) |-> d[Len(d) + 1 - i]]
      at == DropDuplicates(rev)
  IN [i \in 1..Len(at) |->
        [ad_id |-> at[i].ad_id, ad_name_at_launch |-> at[i].ad_name,
         adset_id |-> at[i].adset_id, adset_name_at_launch |-> at[i].adset_name,
         campaign_id |-> at[i].campaign_id,
         campaign_name_at_launch |-> at[i].campaign_name]]

LaunchDims(d) ==
  LET at == DropDuplicates(SelectSeq(d, AtLaunch))
  IN [i \in 1..Len(at) |->
        [ad_id |-> at[i].ad_id, ad_name_at_launch |-> at[i].ad_name,
         adset_id |-> at[i].adset_id, adset_name_at_launch |-> at[i].adset_name,
         campaign_id |-> at[i].campaign_id,
         campaign_name_at_launch |-> at[i].campaign_name]]

\* the guardrail of line 164
GuardrailHolds(g) == \A i \in 1..Len(g) : Between(g[i].week_offset, 1, 4)

(***************************************************************************)
(* build_outputs, build_cohorts.py 170-183                                 *)
(***************************************************************************)
NULL == "<NA>"

NoDims == [ad_id |-> 0, ad_name_at_launch |-> NULL, adset_id |-> NULL,
           adset_name_at_launch |-> NULL, campaign_id |-> NULL,
           campaign_name_at_launch |-> NULL]

FactRow(b, dim) ==
  [cohort_week |-> b.cohort_week, week_offset |-> b.week_offset, ad_id |-> b.ad_id,
   ad_name_at_launch |-> dim.ad_name_at_launch, adset_id |-> dim.adset_id,
   adset_name_at_launch |-> dim.adset_name_at_launch, campaign_id |-> dim.campaign_id,
   campaign_name_at_launch |-> dim.campaign_name_at_launch,
   spend |-> b.spend, purchases |-> b.purchases, revenue |-> b.revenue,
   roas |-> b.roas, hit_bucket |-> b.hit_bucket, hit_cum |-> b.hit_cum]

\* a join without the key: every left row once per right row
RECURSIVE LeftMergeNoKey(_, _)
LeftMergeNoKey(g, dims) ==
  IF g = <<>> THEN <<>>
  ELSE LET b == Head(g)
           joined == IF dims = <<>> THEN <<FactRow(b, NoDims)>>
                   ELSE [i \in 1..Len(dims) |-> FactRow(b, dims[i])]
       IN joined \o LeftMergeNoKey(Tail(g), dims)

\* gb.merge(launch_dims, on="ad_id", how="left"): every left row, once per
\* matching right row, or once with nulls when there is none
RECURSIVE LeftMerge(_, _)
LeftMerge(g, dims) ==
  IF g = <<>> THEN <<>>
  ELSE LET b == Head(g)
           m == SelectSeq(dims, LAMBDA x : x.ad_id = b.ad_id)
           joined == IF m = <<>> THEN <<FactRow(b, NoDims)>>
                   ELSE [i \in 1..Len(m) |-> FactRow(b, m[i])]
       IN joined \o LeftMerge(Tail(g), dims)

(***************************************************************************)
(* The run                                                                 *)
(***************************************************************************)
\* a frame never taken to be empty
NeverEmpty(d) == FALSE

\* df_src.empty
IsEmpty(d) == d = <<>>

\* upsert_rows not called
UpsertIdle ==
  /\ rows = <<>>
  /\ upc = "idle"
  /\ attempt = 0
  /\ offset = 0
  /\ sent = 0
  /\ skipped = 0
  /\ posts = <<>>

Init ==
  /\ \E k \in 0..MaxLen : df_src \in [1..k -> Records]
  /\ IsFetchResult(df_src)
  /\ pc = "fetched"
  /\ err = ""
  /\ df = <<>>
  /\ gb = <<>>
  /\ launch_dims = <<>>
  /\ cohort_ad_week = <<>>
  /\ run = 1
  /\ prev_out = <<>>
  /\ UpsertIdle

\* build_cohorts_function, lines 194-196: the check after the fetch raises on
\* an empty frame; otherwise control passes on to prepare_ad_weeks
EntryCheck ==
  /\ pc = "fetched"
  /\ IsEmpty(df_src)
  /\ pc' = "aborted"
  /\ err' = "No source data returned"
  /\ UNCHANGED <<df_src, df, gb, launch_dims, cohort_ad_week, run, prev_out>>
  /\ UNCHANGED uvars

\* prepare_ad_weeks, lines 94-168
PrepareAdWeeks ==
  /\ pc = "fetched"
  /\ IF IsEmpty(df_src)
       THEN /\ pc' = "aborted"
            /\ err' = "No data"
            /\ UNCHANGED <<df, gb, launch_dims>>
       ELSE LET typed == TypeConversion(df_src)
                merged == MergeLaunch(typed, Launch(typed))
                win == Windowed(merged)
                g == HitCum(SortValues(Scored(GroupBy(win))))
            IN IF GuardrailHolds(g)
                 THEN /\ pc' = "prepared"
                      /\ err' = err
                      /\ df' = win
                      /\ gb' = g
                      /\ launch_dims' = LaunchDims(win)
                 ELSE /\ pc' = "aborted"
                      /\ err' = "week_offset out of 1..4"
                      /\ UNCHANGED <<df, gb, launch_dims>>
  /\ UNCHANGED <<df_src, cohort_ad_week, run, prev_out>>
  /\ UNCHANGED uvars

\* build_outputs, lines 170-183
BuildOutputs ==
  /\ pc = "prepared"
  /\ cohort_ad_week' = LeftMerge(gb, launch_dims)
  /\ pc' = "built"
  /\ UNCHANGED <<df_src, err, df, gb, launch_dims, run, prev_out>>
  /\ UNCHANGED uvars

Next == EntryCheck \/ PrepareAdWeeks \/ BuildOutputs

Spec == Init /\ [][Next]_vars

(***************************************************************************)
(* A second run over the same records, handed over in any order (the rows  *)
(* of the first run are in fetch order).  The ads are renamed over time.   *)
(***************************************************************************)
InitPerm ==
  /\ \E k \in 0..MaxPermLen : df_src \in [1..k -> PermRecords]
  /\ IsFetchResult(df_src)
  /\ pc = "fetched"
  /\ err = ""
  /\ df = <<>>
  /\ gb = <<>>
  /\ launch_dims = <<>>
  /\ cohort_ad_week = <<>>
  /\ run = 1
  /\ prev_out = <<>>
  /\ UpsertIdle

Rerun ==
  /\ pc = "built"
  /\ run = 1
  /\ \E perm \in Permutations(1..Len(df_src)) :
        df_src' = [i \in 1..Len(df_src) |-> df_src[perm[i]]]
  /\ prev_out' = cohort_ad_week
  /\ run' = 2
  /\ pc' = "fetched"
  /\ err' = ""
  /\ df' = <<>>
  /\ gb' = <<>>
  /\ launch_dims' = <<>>
  /\ cohort_ad_week' = <<>>
  /\ UNCHANGED uvars

NextPerm == EntryCheck \/ PrepareAdWeeks \/ BuildOutputs \/ Rerun

SpecPerm == InitPerm /\ [][NextPerm]_vars

(***************************************************************************)
(* A second run after the ad has been renamed or moved to another adset or *)
(* campaign: the daily job stores the names of the day with each record,   *)
(* so a record dated after the launch carries the new ones.                *)
(***************************************************************************)
NewLabels ==
  [ad_name : {"A", "B"}, adset_id : {"s1", "s2"}, adset_name : {"S", "T"},
   campaign_id : {"c1", "c2"}, campaign_name : {"Testing", "Scaling"}]

Relabel(r, l) ==
  [r EXCEPT !.ad_name = l.ad_name, !.adset_id = l.adset_id,
            !.adset_name = l.adset_name, !.campaign_id = l.campaign_id,
            !.campaign_name = l.campaign_name]

\* the first day of the ad with spend > 0, in the stored records
FirstSpendDay(s, a) ==
  Min({s[i].date_start : i \in {k \in 1..Len(s) : s[k].ad_id = a /\ Coerce(s[k].spend) > 0}})

AfterLaunch(s, j) ==
  /\ \E k \in 1..Len(s) : s[k].ad_id = s[j].ad_id /\ Coerce(s[k].spend) > 0
  /\ s[j].date_start > FirstSpendDay(s, s[j].ad_id)

Rename ==
  /\ pc = "built"
  /\ run = 1
  /\ \E j \in 1..Len(df_src) : \E l \in NewLabels :
        /\ AfterLaunch(df_src, j)
        /\ Relabel(df_src[j], l) # df_src[j]
        /\ df_src' = [df_src EXCEPT ![j] = Relabel(df_src[j], l)]
  /\ prev_out' = cohort_ad_week
  /\ run' = 2
  /\ pc' = "fetched"
  /\ err' = ""
  /\ df' = <<>>
  /\ gb' = <<>>
  /\ launch_dims' = <<>>
  /\ cohort_ad_week' = <<>>
  /\ UNCHANGED uvars

NextRename == EntryCheck \/ PrepareAdWeeks \/ BuildOutputs \/ Rename

SpecRename == InitPerm /\ [][NextRename]_vars

(***************************************************************************)
(* upsert_rows, fb_client.py 139-198, under its retry decorator.  A row of *)
(* the insights is a record of ad_id, date_start and impressions (the      *)
(* other fields are copied or converted the same way).  posts is the log   *)
(* of the POST requests made, in order.                                    *)
(***************************************************************************)
\* stop_after_attempt(5)
MAX_ATTEMPTS == 5

\* r.get(...) of a missing key
NONE == "<None>"

\* "not v" for a string or None
Falsy(v) == v \in {NONE, ""}

URow(a, d, c) == [ad_id |-> a, date_start |-> d, impressions |-> c]

InsightRows ==
  {URow("a1", "2025-09-11", <<"str", 100>>),
   URow("a2", "2025-09-11", <<"null", 0>>),
   URow(NONE, "2025-09-11", <<"str", 100>>),
   URow("", "2025-09-11", <<"str", 100>>),
   URow("a1", NONE, <<"str", 100>>),
   URow("a1", "2025-09-12", <<"bad", 0>>)}

\* int(float(v or 0)) raises ValueError on a string that is not a number
Raises(c) == c[1] = "bad"

IntFloat(c) == IF c[1] \in {"num", "str"} THEN c[2] ELSE 0

\* only ad_id is looked at
WellFormedAdOnly(r) == ~Falsy(r.ad_id)

\* not (not ad_id or not date_start)
WellFormed(r) == ~Falsy(r.ad_id) /\ ~Falsy(r.date_start)

\* rows[i:i+CHUNK]
Batch(rs, i) == SubSeq(rs, i + 1, Min({i + CHUNK, Len(rs)}))

PayloadRow(r) ==
  [ad_id |-> r.ad_id, date_start |-> r.date_start,
   impressions |-> IntFloat(r.impressions)]

Payload(b) ==
  LET sel == SelectSeq(b, WellFormed)
  IN [k \in 1..Len(sel) |-> PayloadRow(sel[k])]

\* a row that passes the check of ad_id and date_start and fails to convert
BatchRaises(b) == \E k \in 1..Len(b) : WellFormed(b[k]) /\ Raises(b[k].impressions)

InitUpsert ==
  /\ \E n \in 0..MaxRows : rows \in [1..n -> InsightRows]
  /\ upc = "running"
  /\ attempt = 1
  /\ offset = 0
  /\ sent = 0
  /\ skipped = 0
  /\ posts = <<>>
  /\ df_src = <<>>
  /\ pc = "upsert"
  /\ err = ""
  /\ df = <<>>
  /\ gb = <<>>
  /\ launch_dims = <<>>
  /\ cohort_ad_week = <<>>
  /\ run = 1
  /\ prev_out = <<>>

\* an exception leaves the function; the decorator calls it again, from the
\* first chunk, unless this was the fifth attempt
Retry ==
  IF attempt < MAX_ATTEMPTS
    THEN /\ attempt' = attempt + 1
         /\ offset' = 0
         /\ sent' = 0
         /\ skipped' = 0
         /\ upc' = "running"
    ELSE /\ upc' = "raised"
         /\ UNCHANGED <<attempt, offset, sent, skipped>>

\* the next turn of the loop, or the return after the last chunk
NextChunk(b) ==
  /\ offset' = offset + CHUNK
  /\ skipped' = skipped + (Len(b) - Len(SelectSeq(b, WellFormed)))
  /\ upc' = IF offset + CHUNK < Len(rows) THEN "running" ELSE "returned"
  /\ attempt' = attempt

\* if not rows: return
UpsertNoRows ==
  /\ upc = "running"
  /\ rows = <<>>
  /\ upc' = "returned"
  /\ UNCHANGED <<rows, attempt, offset, sent, skipped, posts>>
  /\ UNCHANGED <<df_src, pc, err, df, gb, launch_dims, cohort_ad_week, run, prev_out>>

\* a value of the chunk does not convert: the exception leaves the loop
UpsertBadValue ==
  /\ upc = "running"
  /\ rows # <<>>
  /\ BatchRaises(Batch(rows, offset))
  /\ Retry
  /\ UNCHANGED <<rows, posts>>
  /\ UNCHANGED <<df_src, pc, err, df, gb, launch_dims, cohort_ad_week, run, prev_out>>

\* if not payload: continue
UpsertSkipChunk ==
  /\ upc = "running"
  /\ rows # <<>>
  /\ ~BatchRaises(Batch(rows, offset))
  /\ Payload(Batch(rows, offset)) = <<>>
  /\ NextChunk(Batch(rows, offset))
  /\ UNCHANGED <<rows, sent, posts>>
  /\ UNCHANGED <<df_src, pc, err, df, gb, launch_dims, cohort_ad_week, run, prev_out>>

\* requests.post, answered with a success status
UpsertPost ==
  /\ upc = "running"
  /\ rows # <<>>
  /\ ~BatchRaises(Batch(rows, offset))
  /\ LET payload == Payload(Batch(rows, offset))
     IN /\ payload # <<>>
        /\ posts' = Append(posts, [attempt |-> attempt, offset |-> offset,
                                   payload |-> payload, ok |-> TRUE])
        /\ sent' = sent + Len(payload)
  /\ NextChunk(Batch(rows, offset))
  /\ UNCHANGED rows
  /\ UNCHANGED <<df_src, pc, err, df, gb, launch_dims, cohort_ad_week, run, prev_out>>

\* requests.post, answered with an error status: raise_for_status raises
UpsertPostFails ==
  /\ upc = "running"
  /\ rows # <<>>
  /\ ~BatchRaises(Batch(rows, offset))
  /\ LET payload == Payload(Batch(rows, offset))
     IN /\ payload # <<>>
        /\ posts' = Append(posts, [attempt |-> attempt, offset |-> offset,
                                   payload |-> payload, ok |-> FALSE])
  /\ Retry
  /\ UNCHANGED rows
  /\ UNCHANGED <<df_src, pc, err, df, gb, launch_dims, cohort_ad_week, run, prev_out>>

NextUpsert ==
  UpsertNoRows \/ UpsertBadValue \/ UpsertSkipChunk \/ UpsertPost \/ UpsertPostFails

SpecUpsert == InitUpsert /\ [][NextUpsert]_vars

(***************************************************************************)
(* temp(): the summary of one cohort week over the fact table.             *)
(***************************************************************************)
\* cohort_ad_week[(cohort_week == cohort_iso) & (week_offset == week_n)]
WeekRows(t, cohort_iso, week_n) ==
  SelectSeq(t, LAMBDA r : r.cohort_week = cohort_iso /\ r.week_offset = week_n)

\* the ads of the cohort, with or without a row for week_n:
\* .drop_duplicates().sort_values()
AdsAll(t, cohort_iso) ==
  SortSeq(SetToSeq({t[i].ad_id : i \in {k \in 1..Len(t) : t[k].cohort_week = cohort_iso}}),
          LAMBDA x, y : x < y)

\* wk_df.drop_duplicates("ad_id").set_index("ad_id")["hit_cum"]
\*      .reindex(ads_all, fill_value=0)
WeekHits(wk_df, ads_all) ==
  [k \in 1..Len(ads_all) |->
     IF \E i \in 1..Len(wk_df) : wk_df[i].ad_id = ads_all[k]
     THEN wk_df[Min({i \in 1..Len(wk_df) : wk_df[i].ad_id = ads_all[k]})].hit_cum
     ELSE 0]

\* round(mean * 100, 1), in tenths of a percent; a tie needs 16 ads or more
RoundPct(hits, n) == (2000 * hits + n) \div (2 * n)

\* week_hit_pct of the summary row; 0.0 when no row of the cohort has week_n
WeekHitPct(t, cohort_iso, week_n) ==
  LET wk_df == WeekRows(t, cohort_iso, week_n)
      ads_all == AdsAll(t, cohort_iso)
      wk_hits == WeekHits(wk_df, ads_all)
  IN IF wk_df # <<>>
     THEN RoundPct(Sum(wk_hits), Len(ads_all))
     ELSE 0


(***************************************************************************)
(* What the claims speak of, read off the input records                    *)
(***************************************************************************)
Prepared == pc \in {"prepared", "built"}

\* the number a raw cell stands for, 0 when it stands for none
Val(c) == IF c[1] = "num" \/ c[1] = "str" THEN c[2] ELSE 0

SrcOf(a) == {i \in 1..Len(df_src) : df_src[i].ad_id = a}

PaidDates(a) == {df_src[i].date_start : i \in {j \in SrcOf(a) : Val(df_src[j].spend) > 0}}

LaunchDate(a) == CHOOSE d \in PaidDates(a) : \A e \in PaidDates(a) : d <= e

RowsOf(t, a) == {i \in 1..Len(t) : t[i].ad_id = a}

RECURSIVE SumOver(_, _)
SumOver(I, f) ==
  IF I = {} THEN 0
  ELSE LET i == CHOOSE j \in I : TRUE IN f[i] + SumOver(I \ {i}, f)

\* the records of ad a that fall into week w after its launch
WeekRecords(a, w) ==
  {i \in SrcOf(a) :
     LET d == df_src[i].date_start - LaunchDate(a)
     IN 0 <= d /\ d < 28 /\ 7 * (w - 1) <= d /\ d <= 7 * (w - 1) + 6}

BucketRows(a, w) == {i \in 1..Len(gb) : gb[i].ad_id = a /\ gb[i].week_offset = w}

(***************************************************************************)
(* C1: the launch date of an ad is the earliest date among its records     *)
(* with spend > 0; an ad without such a record has no row in the bucket    *)
(* table, the launch-dimension table or the fact table.                    *)
(***************************************************************************)
C1_LaunchDate ==
  Prepared =>
    \A a \in Ads :
      IF PaidDates(a) = {}
        THEN /\ RowsOf(df, a) = {}
             /\ RowsOf(gb, a) = {}
             /\ RowsOf(launch_dims, a) = {}
             /\ RowsOf(cohort_ad_week, a) = {}
        ELSE /\ RowsOf(df, a) # {}
             /\ \A i \in RowsOf(df, a) : df[i].first_spend_date = LaunchDate(a)
             /\ RowsOf(gb, a) # {}
             /\ pc = "built" => RowsOf(cohort_ad_week, a) # {}

\* ad 1 has two paid records on different days; ad 2 has a record but none
\* paid
C1_Witness ==
  /\ pc = "built"
  /\ Cardinality(PaidDates(1)) >= 2
  /\ SrcOf(2) # {} /\ PaidDates(2) = {}
  /\ RowsOf(cohort_ad_week, 1) # {} /\ RowsOf(cohort_ad_week, 2) = {}

(***************************************************************************)
(* C2: a record of an ad with a launch date contributes to a bucket iff    *)
(* its days since launch d satisfy 0 <= d < 28, and then to the bucket of  *)
(* week 1 + floor(d / 7): a bucket row exists exactly for the weeks that   *)
(* have such a record and sums exactly those records; every bucket row and *)
(* fact row has week_offset in 1..4.                                       *)
(***************************************************************************)
C2_Window ==
  Prepared =>
    /\ \A i \in 1..Len(gb) : gb[i].week_offset \in 1..4
    /\ \A i \in 1..Len(cohort_ad_week) : cohort_ad_week[i].week_offset \in 1..4
    /\ \A i \in 1..Len(gb) : PaidDates(gb[i].ad_id) # {}
    /\ \A a \in {b \in Ads : PaidDates(b) # {}} : \A w \in 1..4 :
         /\ (BucketRows(a, w) # {}) <=> (WeekRecords(a, w) # {})
         /\ \A i \in BucketRows(a, w) :
              /\ gb[i].spend =
                   SumOver(WeekRecords(a, w), [j \in 1..Len(df_src) |-> Val(df_src[j].spend)])
              /\ gb[i].purchases =
                   SumOver(WeekRecords(a, w), [j \in 1..Len(df_src) |-> Val(df_src[j].purchases)])
              /\ gb[i].revenue =
                   SumOver(WeekRecords(a, w), [j \in 1..Len(df_src) |-> Val(df_src[j].revenue)])

\* ad 1 launches on day 3: its record 7 days later is in week 2, its paid
\* record 28 days later is left out
C2_Witness ==
  /\ pc = "built"
  /\ PaidDates(1) # {} /\ LaunchDate(1) = 3
  /\ \E i \in SrcOf(1) : df_src[i].date_start = 10
  /\ \E i \in SrcOf(1) : df_src[i].date_start = 31 /\ Val(df_src[i].spend) > 0
  /\ {gb[i].week_offset : i \in RowsOf(gb, 1)} = {1, 2}

(***************************************************************************)
(* C3: for a fixed (cohort_week, ad_id), hit_cum of the row of week w is   *)
(* the OR of hit_bucket over the existing rows of weeks <= w; it does not  *)
(* decrease over the weeks, and stays 1 after a hit, also in a later row   *)
(* of zero spend and after a week without a row.                           *)
(***************************************************************************)
C3_HitCum ==
  Prepared =>
    \A i \in 1..Len(gb) :
      /\ gb[i].hit_cum \in {0, 1}
      /\ (gb[i].hit_cum = 1) <=>
           \E j \in 1..Len(gb) :
              /\ gb[j].cohort_week = gb[i].cohort_week
              /\ gb[j].ad_id = gb[i].ad_id
              /\ gb[j].week_offset <= gb[i].week_offset
              /\ gb[j].hit_bucket = 1
      /\ \A j \in 1..Len(gb) :
           (/\ gb[j].cohort_week = gb[i].cohort_week
            /\ gb[j].ad_id = gb[i].ad_id
            /\ gb[j].week_offset <= gb[i].week_offset) => gb[j].hit_cum <= gb[i].hit_cum

\* a hit in week 1, no row for week 2, and a later row of zero spend that is
\* no hit itself but carries hit_cum = 1; the other ad shares the cohort and
\* never hits
C3_Witness ==
  /\ pc = "built"
  /\ \E i, j \in 1..Len(gb) :
       /\ gb[i].ad_id = 1 /\ gb[i].week_offset = 1 /\ gb[i].hit_bucket = 1
       /\ gb[j].ad_id = 1 /\ gb[j].week_offset >= 3
       /\ gb[j].spend = 0 /\ gb[j].hit_bucket = 0 /\ gb[j].hit_cum = 1
       /\ BucketRows(1, 2) = {}
       /\ \E k \in 1..Len(gb) :
            /\ gb[k].ad_id = 2 /\ gb[k].cohort_week = gb[i].cohort_week
            /\ gb[k].hit_cum = 0

(***************************************************************************)
(* C4: hit_bucket = 1 iff the bucket's purchases >= 10 and its ratio       *)
(* >= 1.4, both inclusive: 10 purchases at ratio exactly 1.4 is a hit,     *)
(* 9 purchases is none, a ratio below 1.4 is none.                         *)
(***************************************************************************)
C4_HitBucket ==
  Prepared =>
    \A i \in 1..Len(gb) :
      /\ gb[i].hit_bucket \in {0, 1}
      /\ (gb[i].hit_bucket = 1) <=>
           (gb[i].purchases >= 10 /\ 5 * gb[i].roas.num >= 7 * gb[i].roas.den)

\* a hit at exactly 10 purchases and ratio 7/5, and a row of 9 purchases at a
\* higher ratio that is no hit
C4_Witness ==
  /\ pc = "built"
  /\ \E i, j \in 1..Len(gb) :
       /\ gb[i].purchases = 10 /\ gb[i].roas = [num |-> 7, den |-> 5]
       /\ gb[i].hit_bucket = 1
       /\ gb[j].purchases = 9 /\ gb[j].roas = [num |-> 8, den |-> 5]
       /\ gb[j].hit_bucket = 0

(***************************************************************************)
(* C5: roas is the bucket's revenue divided by its spend when the spend is *)
(* > 0 and exactly 0 when the spend is 0, whatever the revenue; it is      *)
(* always a finite number, and a bucket of zero spend is never a hit.      *)
(***************************************************************************)
C5_Roas ==
  Prepared =>
    \A i \in 1..Len(gb) :
      /\ gb[i].roas.den > 0
      /\ gb[i].spend > 0 => gb[i].roas.num * gb[i].spend = gb[i].revenue * gb[i].roas.den
      /\ gb[i].spend = 0 => (gb[i].roas.num = 0 /\ gb[i].hit_bucket = 0)

\* a bucket of zero spend with revenue and 10 purchases, next to a paid one
C5_Witness ==
  /\ pc = "built"
  /\ \E i, j \in 1..Len(gb) :
       /\ gb[i].spend = 0 /\ gb[i].revenue > 0 /\ gb[i].purchases >= 10
       /\ gb[i].roas.num = 0
       /\ gb[j].spend > 0 /\ gb[j].revenue > 0 /\ gb[j].roas.num > 0

WeekNo(d) == (d + 3) \div 7

C7_CohortWeek ==
  Prepared =>
    /\ \A i \in 1..Len(gb) :
         LET c == gb[i].cohort_week
             L == LaunchDate(gb[i].ad_id)
         IN /\ (c + 10) % 7 = 0
            /\ c <= L /\ L <= c + 6
    /\ \A i \in 1..Len(cohort_ad_week) :
         LET c == cohort_ad_week[i].cohort_week
             L == LaunchDate(cohort_ad_week[i].ad_id)
         IN /\ (c + 10) % 7 = 0
            /\ c <= L /\ L <= c + 6
    /\ \A i, j \in 1..Len(gb) :
         (gb[i].cohort_week = gb[j].cohort_week)
           <=> (WeekNo(LaunchDate(gb[i].ad_id)) = WeekNo(LaunchDate(gb[j].ad_id)))

\* ad 1 launches on Monday day 4 and ad 2 on Sunday day 10: one cohort, day 4
C7_Witness ==
  /\ pc = "built"
  /\ PaidDates(1) # {} /\ LaunchDate(1) = 4
  /\ PaidDates(2) # {} /\ LaunchDate(2) = 10
  /\ \A i \in 1..Len(cohort_ad_week) : cohort_ad_week[i].cohort_week = 4
  /\ RowsOf(cohort_ad_week, 1) # {} /\ RowsOf(cohort_ad_week, 2) # {}

(***************************************************************************)
(* C8: on an empty input the run aborts with a 'no data' failure, in       *)
(* prepare_ad_weeks and in build_cohorts_function alike, before any        *)
(* windowing, aggregation or output assembly: no table is produced.        *)
(***************************************************************************)
C8_EmptyAborts ==
  df_src = <<>> =>
    /\ pc \in {"fetched", "aborted"}
    /\ pc = "aborted" => err \in {"No data", "No source data returned"}
    /\ df = <<>> /\ gb = <<>> /\ launch_dims = <<>> /\ cohort_ad_week = <<>>

C8_Witness == df_src = <<>> /\ pc = "aborted" /\ err = "No data"

(***************************************************************************)
(* C9: the numeric coercion never fails: with a missing or unparseable     *)
(* impressions, purchases, spend or revenue value the run goes on and the  *)
(* field counts as 0 in the launch-date detection and in the frame that    *)
(* is summed; a record of unparseable spend never sets a launch date.      *)
(***************************************************************************)
Parseable(c) == c[1] = "num" \/ c[1] = "str"

C9_Coercion ==
  /\ df_src # <<>> => pc # "aborted"
  /\ Prepared =>
       /\ \A i \in 1..Len(df) :
            \E j \in 1..Len(df_src) :
               /\ df_src[j].ad_id = df[i].ad_id
               /\ df_src[j].date_start = df[i].date_start
               /\ df[i].spend = (IF Parseable(df_src[j].spend) THEN df_src[j].spend[2] ELSE 0)
               /\ df[i].revenue = (IF Parseable(df_src[j].revenue) THEN df_src[j].revenue[2] ELSE 0)
               /\ df[i].purchases = (IF Parseable(df_src[j].purchases) THEN df_src[j].purchases[2] ELSE 0)
               /\ df[i].impressions = (IF Parseable(df_src[j].impressions) THEN df_src[j].impressions[2] ELSE 0)
       /\ \A i \in 1..Len(df) :
            \E j \in 1..Len(df_src) :
               /\ df_src[j].ad_id = df[i].ad_id
               /\ df_src[j].date_start = df[i].first_spend_date
               /\ Parseable(df_src[j].spend)
               /\ df_src[j].spend[2] > 0
       /\ \A a \in Ads :
            (\A j \in SrcOf(a) : ~Parseable(df_src[j].spend)) => RowsOf(gb, a) = {}

\* ad 1 has a record of unparseable spend before its launch day and, in the
\* window, a record whose purchases are missing and whose revenue is
\* unparseable; ad 2 has only a record of unparseable spend
C9_Witness ==
  /\ pc = "built"
  /\ PaidDates(1) # {}
  /\ \E j \in SrcOf(1) :
       ~Parseable(df_src[j].spend) /\ df_src[j].date_start < LaunchDate(1)
  /\ \E i \in RowsOf(df, 1) : \E j \in SrcOf(1) :
       /\ df_src[j].date_start = df[i].date_start
       /\ df_src[j].purchases[1] = "null" /\ df_src[j].revenue[1] = "bad"
       /\ df[i].purchases = 0 /\ df[i].revenue = 0

(***************************************************************************)
(* C11: the bucket table has exactly one row for each key (cohort_week,    *)
(* week_offset, ad_id) that has a retained daily record and no row for any *)
(* other key; the row's spend, purchases and revenue are the sums over the *)
(* retained records of that key.                                           *)
(***************************************************************************)
BucketKey(r) == <<r.cohort_week, r.week_offset, r.ad_id>>

Retained(k) == {j \in 1..Len(df) : BucketKey(df[j]) = k}

C11_OneRowPerKey ==
  Prepared =>
    /\ \A i, j \in 1..Len(gb) : BucketKey(gb[i]) = BucketKey(gb[j]) => i = j
    /\ {BucketKey(gb[i]) : i \in 1..Len(gb)} = {BucketKey(df[j]) : j \in 1..Len(df)}
    /\ \A i \in 1..Len(gb) :
         LET rec == Retained(BucketKey(gb[i]))
         IN /\ gb[i].spend = SumOver(rec, [j \in 1..Len(df) |-> df[j].spend])
            /\ gb[i].purchases = SumOver(rec, [j \in 1..Len(df) |-> df[j].purchases])
            /\ gb[i].revenue = SumOver(rec, [j \in 1..Len(df) |-> df[j].revenue])

\* a bucket of two retained records, and an ad with rows for weeks 1 and 4
\* and none for weeks 2 and 3
C11_Witness ==
  /\ pc = "built"
  /\ \E i \in 1..Len(gb) :
       /\ Cardinality(Retained(BucketKey(gb[i]))) = 2
       /\ gb[i].spend = 10
  /\ {gb[i].week_offset : i \in RowsOf(gb, 1)} = {1, 4}

(***************************************************************************)
(* C12: build_outputs keeps the cardinality of the bucket table: the fact  *)
(* table has one row for each bucket row and no other, with the same key   *)
(* and the same spend, purchases, revenue, roas, hit_bucket and hit_cum;   *)
(* (cohort_week, week_offset, ad_id) is a unique key of the fact table.    *)
(***************************************************************************)
BucketPart(r) ==
  [cohort_week |-> r.cohort_week, week_offset |-> r.week_offset, ad_id |-> r.ad_id,
   spend |-> r.spend, purchases |-> r.purchases, revenue |-> r.revenue,
   roas |-> r.roas, hit_bucket |-> r.hit_bucket, hit_cum |-> r.hit_cum]

C12_JoinKeepsRows ==
  pc = "built" =>
    /\ Len(cohort_ad_week) = Len(gb)
    /\ {BucketPart(cohort_ad_week[i]) : i \in 1..Len(cohort_ad_week)} = Range(gb)
    /\ \A i, j \in 1..Len(cohort_ad_week) :
         BucketKey(cohort_ad_week[i]) = BucketKey(cohort_ad_week[j]) => i = j

\* three bucket rows of two ads, each joined to the one row of its ad
C12_Witness ==
  /\ pc = "built"
  /\ Len(gb) = 3 /\ Len(launch_dims) = 2
  /\ Len(cohort_ad_week) = 3

(***************************************************************************)
(* C16: every ad in the output has a bucket of week_offset 1 with spend    *)
(* > 0 (its launch day is day 0 of the window): no trajectory starts at    *)
(* week 2 or later, and a bucket of zero spend has week_offset >= 2.       *)
(***************************************************************************)
C16_WeekOneSpend ==
  Prepared =>
    /\ \A i \in 1..Len(gb) :
         \E j \in 1..Len(gb) :
            gb[j].ad_id = gb[i].ad_id /\ gb[j].week_offset = 1 /\ gb[j].spend > 0
    /\ \A i \in 1..Len(gb) : gb[i].spend = 0 => gb[i].week_offset >= 2
    /\ \A i \in 1..Len(cohort_ad_week) :
         \E j \in 1..Len(cohort_ad_week) :
            /\ cohort_ad_week[j].ad_id = cohort_ad_week[i].ad_id
            /\ cohort_ad_week[j].week_offset = 1
            /\ cohort_ad_week[j].spend > 0

\* an ad with an unpaid record on its launch day's eve, a paid week 1 and a
\* later bucket of zero spend
C16_Witness ==
  /\ pc = "built"
  /\ PaidDates(1) # {}
  /\ \E j \in SrcOf(1) : df_src[j].date_start < LaunchDate(1)
  /\ \E i, j \in RowsOf(gb, 1) :
       /\ gb[i].week_offset = 1 /\ gb[i].spend > 0
       /\ gb[j].week_offset >= 2 /\ gb[j].spend = 0 /\ gb[j].roas.num = 0

(***************************************************************************)
(* C17: on an input with at most one record per (ad_id, date), every ad    *)
(* with a row in the bucket table has exactly one row in the               *)
(* launch-dimension table, so no fact row has null launch-dimension fields.*)
(***************************************************************************)
C17_DimsForEveryAd ==
  (Prepared /\ UniqueKey(df_src)) =>
    /\ \A i \in 1..Len(gb) : Cardinality(RowsOf(launch_dims, gb[i].ad_id)) = 1
    /\ \A i \in 1..Len(cohort_ad_week) :
         /\ cohort_ad_week[i].ad_name_at_launch # NULL
         /\ cohort_ad_week[i].adset_id # NULL
         /\ cohort_ad_week[i].adset_name_at_launch # NULL
         /\ cohort_ad_week[i].campaign_id # NULL
         /\ cohort_ad_week[i].campaign_name_at_launch # NULL

\* two ads, one launched on a Sunday and one on a Monday, each with fact rows
C17_Witness ==
  /\ pc = "built"
  /\ UniqueKey(df_src)
  /\ PaidDates(1) # {} /\ LaunchDate(1) = 3
  /\ PaidDates(2) # {} /\ LaunchDate(2) = 4
  /\ RowsOf(cohort_ad_week, 1) # {} /\ RowsOf(cohort_ad_week, 2) # {}
  /\ Len(launch_dims) = 2

(***************************************************************************)
(* C14: for a fixed cohort, the hit percentage of temp()'s summary         *)
(* (denominator all ads of the cohort, an ad without a row for week N      *)
(* counted 0) does not decrease as N goes from 1 to 4.                     *)
(***************************************************************************)
Cohorts(t) == {t[i].cohort_week : i \in 1..Len(t)}

C14_CohortPctMonotone ==
  pc = "built" =>
    \A c \in Cohorts(cohort_ad_week) : \A n \in 1..3 :
       WeekHitPct(cohort_ad_week, c, n) <= WeekHitPct(cohort_ad_week, c, n + 1)

(***************************************************************************)
(* C13: the launch-dimension table has exactly one row per ad that has a   *)
(* launch date, with the identifiers and names of the ad's record of the   *)
(* launch date; a change of the names or of the adset/campaign identifiers *)
(* on a record dated after the launch leaves every fact row unchanged.     *)
(***************************************************************************)
LaunchRecords(a) == {j \in SrcOf(a) : df_src[j].date_start = LaunchDate(a)}

C13_LaunchLabels ==
  /\ Prepared =>
       /\ \A a \in Ads :
            Cardinality(RowsOf(launch_dims, a)) = IF PaidDates(a) # {} THEN 1 ELSE 0
       /\ \A i \in 1..Len(launch_dims) :
            \E j \in LaunchRecords(launch_dims[i].ad_id) :
               /\ launch_dims[i].ad_name_at_launch = df_src[j].ad_name
               /\ launch_dims[i].adset_id = df_src[j].adset_id
               /\ launch_dims[i].adset_name_at_launch = df_src[j].adset_name
               /\ launch_dims[i].campaign_id = df_src[j].campaign_id
               /\ launch_dims[i].campaign_name_at_launch = df_src[j].campaign_name
  /\ (run = 2 /\ pc = "built") => cohort_ad_week = prev_out

\* the second run of an ad with fact rows for two weeks, after its week-2
\* record got another name and another campaign
C13_Witness ==
  /\ run = 2 /\ pc = "built"
  /\ Cardinality(RowsOf(cohort_ad_week, 1)) = 2
  /\ \E j \in SrcOf(1) : \E i \in RowsOf(cohort_ad_week, 1) :
        /\ df_src[j].date_start > LaunchDate(1)
        /\ df_src[j].ad_name # cohort_ad_week[i].ad_name_at_launch
        /\ df_src[j].campaign_id # cohort_ad_week[i].campaign_id

(***************************************************************************)
(* C15: upsert_rows never posts a row whose ad_id or date_start is missing *)
(* or empty; each POST carries the well-formed rows of one consecutive     *)
(* chunk of at most CHUNK input rows; when it returns on a non-empty input *)
(* every row with both fields was in a POST that succeeded; an attempt     *)
(* after a failure starts at the first chunk and posts the chunks already  *)
(* sent again, in at most MAX_ATTEMPTS attempts.                           *)
(***************************************************************************)
HasBoth(r) == r.ad_id \notin {NONE, ""} /\ r.date_start \notin {NONE, ""}

\* the input rows of the chunk at offset o that have both fields, in order
ChunkIdx(o) ==
  SortSeq(SetToSeq({j \in (o + 1)..Min({o + CHUNK, Len(rows)}) : HasBoth(rows[j])}),
          LAMBDA x, y : x < y)

C15_UpsertPosts ==
  /\ \A p \in 1..Len(posts) :
       LET q == posts[p]
           idx == ChunkIdx(q.offset)
       IN /\ \A k \in 1..Len(q.payload) : HasBoth(q.payload[k])
          /\ q.offset % CHUNK = 0 /\ q.offset < Len(rows)
          /\ Len(q.payload) = Len(idx) /\ Len(idx) >= 1 /\ Len(idx) <= CHUNK
          /\ \A k \in 1..Len(idx) :
               /\ q.payload[k].ad_id = rows[idx[k]].ad_id
               /\ q.payload[k].date_start = rows[idx[k]].date_start
          /\ q.attempt \in 1..MAX_ATTEMPTS
          /\ \A o \in 0..(q.offset - 1) :
               (o % CHUNK = 0 /\ Len(ChunkIdx(o)) >= 1) =>
                  \E e \in 1..(p - 1) :
                     /\ posts[e].attempt = q.attempt
                     /\ posts[e].offset = o
                     /\ posts[e].ok
  /\ (upc = "returned" /\ rows # <<>>) =>
       \A j \in 1..Len(rows) :
          HasBoth(rows[j]) =>
             \E p \in 1..Len(posts) :
                /\ posts[p].ok
                /\ posts[p].offset < j /\ j <= posts[p].offset + CHUNK
                /\ \E k \in 1..Len(posts[p].payload) :
                      /\ posts[p].payload[k].ad_id = rows[j].ad_id
                      /\ posts[p].payload[k].date_start = rows[j].date_start

\* a return at the second attempt: the first chunk went through in the first
\* attempt, the second chunk failed, and the first chunk was posted again;
\* a row without ad_id was left out
C15_Witness ==
  /\ upc = "returned"
  /\ attempt = 2
  /\ Len(rows) = 3
  /\ \E j \in 1..Len(rows) : ~HasBoth(rows[j])
  /\ Len(posts) = 4
  /\ posts[1].attempt = 1 /\ posts[1].offset = 0 /\ posts[1].ok
  /\ posts[2].attempt = 1 /\ posts[2].offset = CHUNK /\ ~posts[2].ok
  /\ posts[3].attempt = 2 /\ posts[3].offset = 0 /\ posts[3].ok
  /\ posts[4].attempt = 2 /\ posts[4].offset = CHUNK /\ posts[4].ok

====
